---- MODULE Spec2Model ----
(***************************************************************************)
(* Model of the voice-to-highlight service (src/src/updates): the in-memory *)
(* store (state.py), the three provider adapters (services/*.py) and the    *)
(* HTTP handlers (api.py) as they run on the single asyncio event loop that *)
(* uvicorn.run starts (api.py:161-165).  Every handler is an `async def`,   *)
(* so handlers interleave only at an `await`; a synchronous provider call   *)
(* made inside a handler keeps the event-loop thread until it returns.      *)
(*                                                                         *)
(* Python's Optional values are sequences of length at most one:            *)
(* None is <<>> and a present value x is <<x>>.  A highlight text is a      *)
(* sequence of characters, so that slices are computed and not assumed.     *)
(***************************************************************************)
EXTENDS Integers, Sequences, FiniteSets, Bags, TLC

\* ---------------------------------------------------------------- bounds
NumReqs == 2        \* overlapping HTTP requests that carry an await
MaxTime == 1        \* the clock runs over 0..MaxTime hours (Spec, SpecContext)
MaxSets == 2        \* PUT /context calls in one behaviour (SpecContext)
MaxHist == 3        \* length of a drawn submission history (SpecRecent)
MaxClock == 3       \* largest clock value and created_at drawn (SpecRecent)
MaxArg == 3         \* largest hours / limit argument drawn (SpecRecent)
MaxLoc == 2         \* largest location the provider returns (SpecParse)

\* ------------------------------------------------------ program constants
DefaultHours == 2   \* state.py:27, hours: int = 2
DefaultLimit == 10  \* state.py:27, limit: int = 10
ContextCut == 100   \* api.py:93, s.highlight.text[:100]

None == <<>>
Some(x) == <<x>>
Val(o) == o[1]

Min(a, b) == IF a <= b THEN a ELSE b

\* Python's s[:n] for n >= 0.
Slice(s, n) == SubSeq(s, 1, Min(n, Len(s)))

Reqs == 1..NumReqs
NoReq == 0          \* the event loop is free
Putter == -1        \* the PUT /context handler holds the event loop

VARIABLES
  now,              \* datetime.now(), in hours
  submissions,      \* state._submissions
  current_context,  \* state._current_context
  context_set_at,   \* state._context_set_at
  loop,             \* the request whose coroutine holds the event-loop thread
  pc,               \* each request's position in its handler
  kind,             \* each request's endpoint: "process", "submit", ...
  transcript,       \* process_audio's local `transcript`
  context,          \* process_audio's local `context`
  parsed,           \* claude.parse's local `parsed` (the provider's record)
  highlight,        \* the handler's local `highlight`
  readwise_id,      \* the handler's local `readwise_id`
  response,         \* the HTTP response sent for each request
  trace,            \* the steps each request has executed, in order
  posted,           \* the payload each request POSTed to the remote service
  answer,           \* what the remote service answered to that POST
  ctxResp,          \* the answer a client got from GET /context
  ctxSeen,          \* how many set_context calls preceded that answer
  recentResp,       \* the answer a caller got from get_recent
  recentArgs,       \* the arguments and the store of that get_recent call
  setLog            \* every set_context call, in order

vars == <<now, submissions, current_context, context_set_at, loop, pc, kind,
          transcript, context, parsed, highlight, readwise_id, response,
          trace, posted, answer, ctxResp, ctxSeen, recentResp, recentArgs, setLog>>

storeVars == <<submissions, current_context, context_set_at>>
localVars == <<transcript, context, parsed, highlight, readwise_id>>
reqVars == <<pc, kind, localVars, response, trace, posted, answer>>
obsVars == <<ctxResp, ctxSeen, recentResp, recentArgs, setLog>>

\* --------------------------------------------------------------- schemas
CategoryValues == {"books", "articles", "podcasts", "tweets"}
LocationTypeValues == {"page", "order", "time_offset"}

Highlight(text, title, author, category, note, location, location_type) ==
  [text |-> text, title |-> title, author |-> author, category |-> category,
   note |-> note, location |-> location, location_type |-> location_type]

SubmissionRecord(tr, h, rid, at) ==
  [transcript |-> tr, highlight |-> h, readwise_id |-> rid, created_at |-> at]

\* Truthiness of an Optional[str]: None and "" are falsy.
Truthy(o) == o # None /\ Val(o) # ""

\* ---------------------------------------------------------------- state.py
add_submission_overwrite(subs, tr, h, rid, t) ==
  IF subs = <<>> THEN <<SubmissionRecord(tr, h, rid, t)>>
  ELSE [subs EXCEPT ![Len(subs)] = SubmissionRecord(tr, h, rid, t)]

add_submission(subs, tr, h, rid, t) ==
  Append(subs, SubmissionRecord(tr, h, rid, t))

\* list.sort(key=created_at, reverse=True): a stable insertion of each
\* element, in list order, after the elements whose key is >= its own.
RECURSIVE InsertDesc(_, _)
InsertDesc(sorted, s) ==
  IF sorted = <<>> THEN <<s>>
  ELSE IF Head(sorted).created_at >= s.created_at
       THEN <<Head(sorted)>> \o InsertDesc(Tail(sorted), s)
       ELSE <<s>> \o sorted

RECURSIVE SortDesc(_)
SortDesc(l) ==
  IF l = <<>> THEN <<>>
  ELSE InsertDesc(SortDesc(SubSeq(l, 1, Len(l) - 1)), l[Len(l)])

InWindow(s, cutoff) == s.created_at >= cutoff

get_recent_unsorted(subs, t, hours, limit) ==
  Slice(SelectSeq(subs, LAMBDA s : InWindow(s, t - hours)), limit)

get_recent(subs, t, hours, limit) ==
  Slice(SortDesc(SelectSeq(subs, LAMBDA s : InWindow(s, t - hours))), limit)

\* state.py:49-50, get_context.
get_context == <<current_context, context_set_at>>

format_recent_context(subs) ==
  [header |-> IF subs = <<>> THEN None ELSE Some("Recent updates:"),
   lines |-> [i \in 1..Len(subs) |->
     [title |-> IF Truthy(subs[i].highlight.title)
                THEN Val(subs[i].highlight.title) ELSE "Unknown",
      text |-> Slice(subs[i].highlight.text, 50),
      ellipsis |-> Len(subs[i].highlight.text) > 50,
      time |-> subs[i].created_at]]]

\* ------------------------------------------------------ services/claude.py
\* The provider's sentinel-typed record (ParsedHighlight, claude.py:12-21).
ParsedHighlight(text, title, author, category, note, location, location_type) ==
  [text |-> text, title |-> title, author |-> author, category |-> category,
   note |-> note, location |-> location, location_type |-> location_type]

StrOrNone(s) == IF s # "" THEN Some(s) ELSE None

to_highlight_location_ge0(rec) ==
  Highlight(rec.text, StrOrNone(rec.title), StrOrNone(rec.author),
    IF rec.category # "" /\ rec.category \in CategoryValues
      THEN Some(rec.category) ELSE None,
    StrOrNone(rec.note),
    IF rec.location >= 0 THEN Some(rec.location) ELSE None,
    IF rec.location_type # "" /\ rec.location_type \in LocationTypeValues
      THEN Some(rec.location_type) ELSE None)

\* claude.py:89-108, the conversion of `parsed` into a Highlight.
to_highlight(rec) ==
  Highlight(rec.text, StrOrNone(rec.title), StrOrNone(rec.author),
    IF rec.category # "" /\ rec.category \in CategoryValues
      THEN Some(rec.category) ELSE None,
    StrOrNone(rec.note),
    IF rec.location > 0 THEN Some(rec.location) ELSE None,
    IF rec.location_type # "" /\ rec.location_type \in LocationTypeValues
      THEN Some(rec.location_type) ELSE None)

\* ---------------------------------------------------- services/readwise.py
Exception(type, text, code) ==
  [type |-> type, message |-> [text |-> text, code |-> code]]

TitleRequired ==
  Exception("ReadwiseError", "Title is required for Readwise submission", None)

title_ok_not_none(h) == h.title # None

\* readwise.py:21, `if not highlight.title` guards the whole call.
title_ok(h) == Truthy(h.title)

highlight_keys_truthy_location(h) ==
  {"text", "title", "source_type"}
    \cup (IF Truthy(h.author) THEN {"author"} ELSE {})
    \cup (IF Truthy(h.category) THEN {"category"} ELSE {})
    \cup (IF Truthy(h.note) THEN {"note"} ELSE {})
    \cup (IF h.location # None /\ Val(h.location) # 0 THEN {"location"} ELSE {})
    \cup (IF Truthy(h.location_type) THEN {"location_type"} ELSE {})

\* readwise.py:26-41, the keys of the dict: the optional strings and enums
\* by truthiness, the location by `is not None`.
highlight_keys(h) ==
  {"text", "title", "source_type"}
    \cup (IF Truthy(h.author) THEN {"author"} ELSE {})
    \cup (IF Truthy(h.category) THEN {"category"} ELSE {})
    \cup (IF Truthy(h.note) THEN {"note"} ELSE {})
    \cup (IF h.location # None THEN {"location"} ELSE {})
    \cup (IF Truthy(h.location_type) THEN {"location_type"} ELSE {})

\* readwise.py:26-41, the dict sent as json={"highlights": [highlight_data]}.
highlight_data(h) ==
  [k \in highlight_keys(h) |->
     CASE k = "text" -> h.text
       [] k = "title" -> Val(h.title)
       [] k = "source_type" -> "updates_app"
       [] k = "author" -> Val(h.author)
       [] k = "category" -> Val(h.category)
       [] k = "note" -> Val(h.note)
       [] k = "location" -> Val(h.location)
       [] k = "location_type" -> Val(h.location_type)]

\* What the remote service can answer to the POST.
TransportError == [kind |-> "transport_error", status |-> 0,
                   body |-> [shape |-> "none", id |-> None]]
HttpResponse(status, shape, id) ==
  [kind |-> "response", status |-> status, body |-> [shape |-> shape, id |-> id]]

IsSuccess(status) == status >= 200 /\ status < 300

Return(v) == [ok |-> TRUE, value |-> v, exc |-> Exception("", "", None)]
Raise(e) == [ok |-> FALSE, value |-> None, exc |-> e]

\* readwise.py:43-61, from the answer to the returned id or the ReadwiseError.
\* Body shapes: "invalid_json" is a body response.json() cannot decode (an
\* empty body too); "null", "empty_list" and "object" are falsy or no list;
\* "list_of_scalar" has a first element without .get; "list_of_object" has
\* a first element with the id given or without the key "id";
\* "list_of_object_null_id" has "id": null, which .get returns as None.
submit_result(outcome) ==
  IF outcome.kind = "transport_error"
    THEN Raise(Exception("ReadwiseError", "Failed to submit to Readwise", None))
  ELSE IF ~IsSuccess(outcome.status)
    THEN Raise(Exception("ReadwiseError", "Readwise API error",
                         Some(outcome.status)))
  ELSE CASE outcome.body.shape = "invalid_json" ->
              Raise(Exception("ReadwiseError", "Failed to submit to Readwise", None))
         [] outcome.body.shape = "list_of_scalar" ->
              Raise(Exception("ReadwiseError", "Failed to submit to Readwise", None))
         [] outcome.body.shape = "list_of_object" ->
              Return(IF outcome.body.id # None THEN outcome.body.id ELSE Some(0))
         [] outcome.body.shape = "list_of_object_null_id" -> Return(None)
         [] OTHER -> Return(Some(0))

\* ------------------------------------------------------------------ api.py
\* The except clauses of process_audio (api.py:112-117) and of
\* submit_to_readwise (api.py:75-76): the exception's type picks the stage
\* named in the 500 response.
stage_of_swapped(k, exc) ==
  IF k # "process" THEN None
  ELSE CASE exc.type = "TranscriptionError" -> Some("Parsing failed")
         [] exc.type = "ParsingError" -> Some("Transcription failed")
         [] exc.type = "ReadwiseError" -> Some("Readwise submission failed")

stage_of(k, exc) ==
  IF k # "process" THEN None
  ELSE CASE exc.type = "TranscriptionError" -> Some("Transcription failed")
         [] exc.type = "ParsingError" -> Some("Parsing failed")
         [] exc.type = "ReadwiseError" -> Some("Readwise submission failed")

HTTPException(k, exc) ==
  [status |-> 500,
   body |-> [detail |-> [stage |-> stage_of(k, exc), message |-> exc.message]]]

ProcessResponse(tr, h, rid) ==
  [status |-> 200,
   body |-> [success |-> TRUE, transcript |-> tr, highlight |-> h,
             readwise_id |-> rid]]

SubmitResponse(rid) ==
  [status |-> 200, body |-> [success |-> TRUE, readwise_id |-> rid]]

build_context_whole_text(subs, t) ==
  LET recent == get_recent(subs, t, DefaultHours, DefaultLimit)
  IN [current |-> get_context[1],
      recent |-> [i \in 1..Len(recent) |->
                    [title |-> recent[i].highlight.title,
                     text |-> recent[i].highlight.text]]]

\* api.py:88-96, the context handed to claude.parse.
build_context(subs, t) ==
  LET recent == get_recent(subs, t, DefaultHours, DefaultLimit)
  IN [current |-> get_context[1],
      recent |-> [i \in 1..Len(recent) |->
                    [title |-> recent[i].highlight.title,
                     text |-> Slice(recent[i].highlight.text, ContextCut)]]]

\* ------------------------------------------------------------------ inputs
Transcripts == {"update from atomic habits, small habits compound over time"}
HiText == <<"S", "m", "a", "l", "l">>

\* What the extraction provider returns in the pipeline runs.
ParsedMain ==
  {ParsedHighlight(HiText, "Atomic Habits", "", "books", "", 0, ""),
   ParsedHighlight(HiText, "", "", "", "", 0, "")}

\* The bodies of POST /submit.
SubmitRequests ==
  {Highlight(HiText, Some("Atomic Habits"), None, Some("books"), None, None, None),
   Highlight(HiText, Some(""), None, None, None, Some(0), None)}

\* The answers of the remote highlights service.
Outcomes ==
  {HttpResponse(200, "list_of_object", Some(123)),
   HttpResponse(200, "empty_list", None),
   HttpResponse(500, "object", None)}

ContextTexts == {"reading Atomic Habits", "listening to a podcast"}
MainContextTexts == {"reading Atomic Habits"}

\* -------------------------------------------------------------------- Init
Init ==
  /\ now = 0
  /\ submissions = <<>>
  /\ current_context = None
  /\ context_set_at = None
  /\ loop = NoReq
  /\ pc = [p \in Reqs |-> "Idle"]
  /\ kind = [p \in Reqs |-> "none"]
  /\ transcript = [p \in Reqs |-> None]
  /\ context = [p \in Reqs |-> None]
  /\ parsed = [p \in Reqs |-> None]
  /\ highlight = [p \in Reqs |-> None]
  /\ readwise_id = [p \in Reqs |-> None]
  /\ response = [p \in Reqs |-> None]
  /\ trace = [p \in Reqs |-> <<>>]
  /\ posted = [p \in Reqs |-> None]
  /\ answer = [p \in Reqs |-> None]
  /\ ctxResp = None
  /\ ctxSeen = 0
  /\ recentResp = None
  /\ recentArgs = None
  /\ setLog = <<>>

\* ----------------------------------------------------------------- actions
\* One action per stretch of a handler between two suspension points: an
\* `await`, or the return of a synchronous provider call.

\* The clock advances whatever the event loop is doing.
Tick ==
  /\ now < MaxTime
  /\ now' = now + 1
  /\ UNCHANGED <<storeVars, loop, reqVars, obsVars>>

\* An exception reaches the handler's except clause: the 500 response.
Fail(p, exc) ==
  /\ response' = [response EXCEPT ![p] = Some(HTTPException(kind[p], exc))]
  /\ pc' = [pc EXCEPT ![p] = "Failed"]
  /\ loop' = NoReq

\* readwise.submit_highlight up to its await (readwise.py:21-47), called
\* with highlight h by request p of endpoint k: without a title it raises
\* at once; otherwise the payload is POSTed and the coroutine gives the
\* event loop back until the answer is there.
SubmitBegin(p, k, h) ==
  IF ~title_ok(h)
  THEN /\ trace' = [trace EXCEPT ![p] = Append(@, "submit")]
       /\ response' = [response EXCEPT ![p] =
                         Some(HTTPException(k, TitleRequired))]
       /\ pc' = [pc EXCEPT ![p] = "Failed"]
       /\ loop' = NoReq
       /\ UNCHANGED posted
  ELSE /\ trace' = [trace EXCEPT ![p] = @ \o <<"submit", "post">>]
       /\ posted' = [posted EXCEPT ![p] = Some(highlight_data(h))]
       /\ pc' = [pc EXCEPT ![p] = "AwaitingPost"]
       /\ loop' = NoReq
       /\ UNCHANGED response

\* POST /process arrives; the handler runs to `await audio.read()` (api.py:84).
ArriveProcess(p) ==
  /\ pc[p] = "Idle" /\ loop = NoReq
  /\ kind' = [kind EXCEPT ![p] = "process"]
  /\ pc' = [pc EXCEPT ![p] = "Reading"]
  /\ UNCHANGED <<now, storeVars, loop, localVars, response, trace, posted,
                 answer, obsVars>>

\* audio.read() is done: the coroutine resumes and calls the synchronous
\* elevenlabs.transcribe (api.py:85), which keeps the event-loop thread.
ReadDone(p) ==
  /\ pc[p] = "Reading" /\ loop = NoReq
  /\ pc' = [pc EXCEPT ![p] = "Transcribing"]
  /\ loop' = p
  /\ trace' = [trace EXCEPT ![p] = Append(@, "transcribe")]
  /\ UNCHANGED <<now, storeVars, kind, localVars, response, posted, answer,
                 obsVars>>

\* elevenlabs.transcribe returns the text (elevenlabs.py:24-37); the handler
\* reads the context from the store and calls claude.parse, a synchronous
\* call again (api.py:88-97).
TranscribeOk(p) ==
  /\ kind[p] = "process"
  /\ pc[p] = "Transcribing" /\ loop = p
  /\ \E t \in Transcripts : transcript' = [transcript EXCEPT ![p] = Some(t)]
  /\ context' = [context EXCEPT ![p] = Some(build_context(submissions, now))]
  /\ trace' = [trace EXCEPT ![p] = @ \o <<"build_context", "extract">>]
  /\ pc' = [pc EXCEPT ![p] = "Extracting"]
  /\ UNCHANGED <<now, storeVars, loop, kind, parsed, highlight, readwise_id,
                 response, posted, answer, obsVars>>

\* elevenlabs.transcribe raises TranscriptionError (elevenlabs.py:39-40).
TranscribeFail(p) ==
  /\ pc[p] = "Transcribing" /\ loop = p
  /\ Fail(p, Exception("TranscriptionError", "Transcription failed", None))
  /\ UNCHANGED <<now, storeVars, kind, localVars, trace, posted, answer,
                 obsVars>>

\* claude.parse gets the provider's record rec and converts it
\* (claude.py:89-108); the handler calls submit_highlight (api.py:100).
ExtractReturn(p, rec) ==
  /\ kind[p] = "process"
  /\ pc[p] = "Extracting" /\ loop = p
  /\ parsed' = [parsed EXCEPT ![p] = Some(rec)]
  /\ highlight' = [highlight EXCEPT ![p] = Some(to_highlight(rec))]
  /\ SubmitBegin(p, kind[p], to_highlight(rec))
  /\ UNCHANGED <<now, storeVars, kind, transcript, context, readwise_id,
                 answer, obsVars>>

ExtractOk(p) == \E rec \in ParsedMain : ExtractReturn(p, rec)

\* claude.parse raises ParsingError (claude.py:110-111).
ExtractFail(p) ==
  /\ pc[p] = "Extracting" /\ loop = p
  /\ Fail(p, Exception("ParsingError", "Parsing failed", None))
  /\ UNCHANGED <<now, storeVars, kind, localVars, trace, posted, answer,
                 obsVars>>

\* POST /submit arrives; the handler builds the Highlight and calls
\* submit_highlight (api.py:64-73).
SubmitArrival(p, h) ==
  /\ pc[p] = "Idle" /\ loop = NoReq
  /\ kind' = [kind EXCEPT ![p] = "submit"]
  /\ highlight' = [highlight EXCEPT ![p] = Some(h)]
  /\ SubmitBegin(p, "submit", h)
  /\ UNCHANGED <<now, storeVars, transcript, context, parsed, readwise_id,
                 answer, obsVars>>

ArriveSubmit(p) == \E h \in SubmitRequests : SubmitArrival(p, h)

PostFail_recording(p) ==
  /\ pc[p] = "AwaitingPost" /\ loop = NoReq
  /\ \E o \in Outcomes :
       /\ ~submit_result(o).ok
       /\ answer' = [answer EXCEPT ![p] = Some(o)]
       /\ Fail(p, submit_result(o).exc)
  /\ submissions' = IF kind[p] = "process"
                    THEN add_submission(submissions, Val(transcript[p]),
                                        Val(highlight[p]), None, now)
                    ELSE submissions
  /\ UNCHANGED <<now, current_context, context_set_at, kind, localVars, trace,
                 posted, obsVars>>

\* The answer o makes submit_highlight raise ReadwiseError (readwise.py:49,
\* 58-61); the handler answers 500 and records nothing.
PostRaise(p, o) ==
  /\ pc[p] = "AwaitingPost" /\ loop = NoReq
  /\ ~submit_result(o).ok
  /\ answer' = [answer EXCEPT ![p] = Some(o)]
  /\ Fail(p, submit_result(o).exc)
  /\ UNCHANGED <<now, storeVars, kind, localVars, trace, posted, obsVars>>

PostFail(p) == \E o \in Outcomes : PostRaise(p, o)

PostReturn_recording_submit(p, o) ==
  /\ pc[p] = "AwaitingPost" /\ loop = NoReq
  /\ submit_result(o).ok
  /\ answer' = [answer EXCEPT ![p] = Some(o)]
  /\ LET rid == submit_result(o).value IN
     /\ readwise_id' = [readwise_id EXCEPT ![p] = rid]
     /\ submissions' = add_submission(submissions,
           IF kind[p] = "process" THEN Val(transcript[p]) ELSE "",
           Val(highlight[p]), rid, now)
     /\ IF kind[p] = "process"
        THEN /\ trace' = [trace EXCEPT ![p] = Append(@, "record")]
             /\ response' = [response EXCEPT ![p] =
                   Some(ProcessResponse(Val(transcript[p]),
                                        Val(highlight[p]), rid))]
        ELSE /\ UNCHANGED trace
             /\ response' = [response EXCEPT ![p] = Some(SubmitResponse(rid))]
  /\ pc' = [pc EXCEPT ![p] = "Done"]
  /\ UNCHANGED <<now, current_context, context_set_at, loop, kind, transcript,
                 context, parsed, highlight, posted, obsVars>>

\* On the answer o submit_highlight returns the id; process_audio records
\* the submission and answers (api.py:100-110), submit_to_readwise only
\* answers (api.py:74).
PostReturn(p, o) ==
  /\ pc[p] = "AwaitingPost" /\ loop = NoReq
  /\ submit_result(o).ok
  /\ answer' = [answer EXCEPT ![p] = Some(o)]
  /\ LET rid == submit_result(o).value IN
     /\ readwise_id' = [readwise_id EXCEPT ![p] = rid]
     /\ IF kind[p] = "process"
        THEN /\ submissions' = add_submission(submissions,
                   Val(transcript[p]), Val(highlight[p]), rid, now)
             /\ trace' = [trace EXCEPT ![p] = Append(@, "record")]
             /\ response' = [response EXCEPT ![p] =
                   Some(ProcessResponse(Val(transcript[p]),
                                        Val(highlight[p]), rid))]
        ELSE /\ UNCHANGED <<submissions, trace>>
             /\ response' = [response EXCEPT ![p] = Some(SubmitResponse(rid))]
  /\ pc' = [pc EXCEPT ![p] = "Done"]
  /\ UNCHANGED <<now, current_context, context_set_at, loop, kind, transcript,
                 context, parsed, highlight, posted, obsVars>>

PostOk(p) == \E o \in Outcomes : PostReturn(p, o)

\* PUT /context (api.py:127-131) runs state.set_context (state.py:46-49)
\* without an await: its two assignments are two steps of one stretch,
\* between which the handler keeps the event loop.
set_context_keep_first(text) ==
  /\ loop = NoReq
  /\ current_context' = IF current_context = None THEN Some(text)
                        ELSE current_context
  /\ loop' = Putter
  /\ UNCHANGED <<now, submissions, context_set_at, reqVars, ctxResp, ctxSeen,
                 recentResp, recentArgs>>

\* state.py:48, _current_context = text.
set_context_text(text) ==
  /\ loop = NoReq
  /\ current_context' = Some(text)
  /\ loop' = Putter
  /\ UNCHANGED <<now, submissions, context_set_at, reqVars, ctxResp, ctxSeen,
                 recentResp, recentArgs>>

\* state.py:49, _context_set_at = datetime.now(); the handler answers.
set_context_stamp ==
  /\ loop = Putter
  /\ context_set_at' = Some(now)
  /\ loop' = NoReq
  /\ UNCHANGED <<now, submissions, current_context, reqVars, ctxResp, ctxSeen,
                 recentResp, recentArgs>>

PutContext ==
  /\ \E text \in MainContextTexts : set_context_text(text)
  /\ UNCHANGED setLog

PutContextDone ==
  /\ set_context_stamp
  /\ UNCHANGED setLog

\* GET /context (api.py:120-124) and GET /recent (api.py:134-143): no await,
\* one step of the event loop each; what they answer.
ContextResponse == [context |-> get_context[1], set_at |-> get_context[2]]

RecentResponse(hours, limit) ==
  LET recent == get_recent(submissions, now, hours, limit)
  IN [count |-> Len(recent),
      context_string |-> format_recent_context(recent),
      highlights |-> recent]

\* The server keeps nothing of either request.
GetContext ==
  /\ loop = NoReq
  /\ UNCHANGED vars

GetRecent ==
  /\ loop = NoReq
  /\ UNCHANGED vars

Next ==
  \/ Tick
  \/ \E p \in Reqs : ArriveProcess(p)
  \/ \E p \in Reqs : ReadDone(p)
  \/ \E p \in Reqs : TranscribeOk(p)
  \/ \E p \in Reqs : TranscribeFail(p)
  \/ \E p \in Reqs : ExtractOk(p)
  \/ \E p \in Reqs : ExtractFail(p)
  \/ \E p \in Reqs : ArriveSubmit(p)
  \/ \E p \in Reqs : PostOk(p)
  \/ \E p \in Reqs : PostFail(p)
  \/ PutContext
  \/ PutContextDone
  \/ GetContext
  \/ GetRecent

Spec == Init /\ [][Next]_vars

\* -------------------------------------------- the handlers without a store
\* The 200 responses of /transcribe, /parse and /health (schemas.py:37-39,
\* 44-51, 82-84).
TranscribeResponse(tr) == [status |-> 200, body |-> [text |-> tr]]
ParseResponse(h) == [status |-> 200, body |-> h]
HealthResponse(ok) ==
  [status |-> 200,
   body |-> [status |-> IF ok THEN "ok" ELSE "degraded", readwise |-> ok]]

\* POST /transcribe arrives; the handler runs to `await audio.read()`
\* (api.py:30); ReadDone and TranscribeFail are its next steps too.
ArriveTranscribe(p) ==
  /\ pc[p] = "Idle" /\ loop = NoReq
  /\ kind' = [kind EXCEPT ![p] = "transcribe"]
  /\ pc' = [pc EXCEPT ![p] = "Reading"]
  /\ UNCHANGED <<now, storeVars, loop, localVars, response, trace, posted,
                 answer, obsVars>>

\* elevenlabs.transcribe returns and transcribe_audio answers (api.py:31-32).
TranscribeOnlyOk(p) ==
  /\ kind[p] = "transcribe"
  /\ pc[p] = "Transcribing" /\ loop = p
  /\ \E t \in Transcripts :
       /\ transcript' = [transcript EXCEPT ![p] = Some(t)]
       /\ response' = [response EXCEPT ![p] = Some(TranscribeResponse(t))]
  /\ pc' = [pc EXCEPT ![p] = "Done"]
  /\ loop' = NoReq
  /\ UNCHANGED <<now, storeVars, kind, context, parsed, highlight, readwise_id,
                 trace, posted, answer, obsVars>>

\* POST /parse arrives; the handler builds the context if the request asks
\* for it and calls the synchronous claude.parse (api.py:43-55).
ArriveParse(p) ==
  /\ pc[p] = "Idle" /\ loop = NoReq
  /\ kind' = [kind EXCEPT ![p] = "parse"]
  /\ \E include_recent_context \in BOOLEAN :
       IF include_recent_context
       THEN /\ context' = [context EXCEPT ![p] =
                             Some(build_context(submissions, now))]
            /\ trace' = [trace EXCEPT ![p] = <<"build_context", "extract">>]
       ELSE /\ context' = [context EXCEPT ![p] = None]
            /\ trace' = [trace EXCEPT ![p] = <<"extract">>]
  /\ pc' = [pc EXCEPT ![p] = "Extracting"]
  /\ loop' = p
  /\ UNCHANGED <<now, storeVars, transcript, parsed, highlight, readwise_id,
                 response, posted, answer, obsVars>>

\* claude.parse returns the converted highlight and parse_transcript
\* answers with it (api.py:55).
ParseReturn(p, rec) ==
  /\ kind[p] = "parse"
  /\ pc[p] = "Extracting" /\ loop = p
  /\ parsed' = [parsed EXCEPT ![p] = Some(rec)]
  /\ highlight' = [highlight EXCEPT ![p] = Some(to_highlight(rec))]
  /\ response' = [response EXCEPT ![p] = Some(ParseResponse(to_highlight(rec)))]
  /\ pc' = [pc EXCEPT ![p] = "Done"]
  /\ loop' = NoReq
  /\ UNCHANGED <<now, storeVars, kind, transcript, context, readwise_id, trace,
                 posted, answer, obsVars>>

ParseOk(p) == \E rec \in ParsedMain : ParseReturn(p, rec)

\* GET /health arrives and awaits readwise.check_connection (api.py:149).
ArriveHealth(p) ==
  /\ pc[p] = "Idle" /\ loop = NoReq
  /\ kind' = [kind EXCEPT ![p] = "health"]
  /\ pc' = [pc EXCEPT ![p] = "AwaitingHealth"]
  /\ UNCHANGED <<now, storeVars, loop, localVars, response, trace, posted,
                 answer, obsVars>>

\* check_connection returns whether the remote answered 204, False on any
\* exception (readwise.py:64-75); health_check answers (api.py:151-158).
HealthDone(p) ==
  /\ pc[p] = "AwaitingHealth" /\ loop = NoReq
  /\ \E readwise_ok \in BOOLEAN :
       response' = [response EXCEPT ![p] = Some(HealthResponse(readwise_ok))]
  /\ pc' = [pc EXCEPT ![p] = "Done"]
  /\ UNCHANGED <<now, storeVars, loop, kind, localVars, trace, posted, answer,
                 obsVars>>

\* Every endpoint of the service; the clock stands still.
NextFrame ==
  \/ \E p \in Reqs : ArriveProcess(p)
  \/ \E p \in Reqs : ArriveTranscribe(p)
  \/ \E p \in Reqs : ReadDone(p)
  \/ \E p \in Reqs : TranscribeOk(p)
  \/ \E p \in Reqs : TranscribeOnlyOk(p)
  \/ \E p \in Reqs : TranscribeFail(p)
  \/ \E p \in Reqs : ExtractOk(p)
  \/ \E p \in Reqs : ArriveParse(p)
  \/ \E p \in Reqs : ParseOk(p)
  \/ \E p \in Reqs : ExtractFail(p)
  \/ \E p \in Reqs : ArriveSubmit(p)
  \/ \E p \in Reqs : PostOk(p)
  \/ \E p \in Reqs : PostFail(p)
  \/ \E p \in Reqs : ArriveHealth(p)
  \/ \E p \in Reqs : HealthDone(p)
  \/ PutContext
  \/ PutContextDone
  \/ GetContext
  \/ GetRecent

SpecFrame == Init /\ [][NextFrame]_vars

\* ------------------------------------------- the context state, observed
\* The same handlers, with every set_context call logged and the answer of
\* GET /context kept, to compare what a client reads with what was set.
PutContextLogged ==
  /\ Len(setLog) < MaxSets
  /\ \E text \in ContextTexts :
       /\ set_context_text(text)
       /\ setLog' = Append(setLog, [text |-> text, called_at |-> now,
                                    set_at |-> None])

PutContextDoneLogged ==
  /\ set_context_stamp
  /\ setLog' = [setLog EXCEPT ![Len(setLog)].set_at = Some(now)]

GetContextObserved_threadpool ==
  /\ ctxResp' = Some(ContextResponse)
  /\ ctxSeen' = Len(setLog)
  /\ UNCHANGED <<now, storeVars, loop, reqVars, recentResp, recentArgs, setLog>>

\* GET /context (api.py:120-124), an `async def` handler: it runs on the
\* event loop, so only when no other handler holds it.
GetContextObserved ==
  /\ loop = NoReq
  /\ ctxResp' = Some(ContextResponse)
  /\ ctxSeen' = Len(setLog)
  /\ UNCHANGED <<now, storeVars, loop, reqVars, recentResp, recentArgs, setLog>>

NextContext ==
  \/ Tick
  \/ PutContextLogged
  \/ PutContextDoneLogged
  \/ GetContextObserved

SpecContext == Init /\ [][NextContext]_vars

\* ----------------------------------------------- get_recent as a function
\* datetime.now() is the naive local wall clock (state.py:21, 28): it can be
\* set back, so a stored created_at may lie after a later one and after the
\* clock value of a call.  The i-th stored record carries remote id i.
HistoryRecord(i, at) ==
  SubmissionRecord("update from atomic habits, small habits compound over time",
    Highlight(HiText, Some("Atomic Habits"), None, Some("books"), None, None,
              None),
    Some(i), at)

Histories ==
  UNION {{[i \in 1..n |-> HistoryRecord(i, f[i])] : f \in [1..n -> 0..MaxClock]} :
         n \in 0..MaxHist}

InitRecent ==
  /\ now \in 0..MaxClock
  /\ submissions \in Histories
  /\ current_context = None
  /\ context_set_at = None
  /\ loop = NoReq
  /\ pc = [p \in Reqs |-> "Idle"]
  /\ kind = [p \in Reqs |-> "none"]
  /\ transcript = [p \in Reqs |-> None]
  /\ context = [p \in Reqs |-> None]
  /\ parsed = [p \in Reqs |-> None]
  /\ highlight = [p \in Reqs |-> None]
  /\ readwise_id = [p \in Reqs |-> None]
  /\ response = [p \in Reqs |-> None]
  /\ trace = [p \in Reqs |-> <<>>]
  /\ posted = [p \in Reqs |-> None]
  /\ answer = [p \in Reqs |-> None]
  /\ ctxResp = None
  /\ ctxSeen = 0
  /\ recentResp = None
  /\ recentArgs = None
  /\ setLog = <<>>

\* state.get_recent(hours, limit) is called and its result kept.
RecentCall ==
  /\ loop = NoReq
  /\ \E hours \in 0..MaxArg, limit \in 0..MaxArg :
       /\ recentResp' = Some(RecentResponse(hours, limit))
       /\ recentArgs' = Some([hours |-> hours, limit |-> limit, at |-> now,
                              stored |-> submissions])
  /\ UNCHANGED <<now, storeVars, loop, reqVars, ctxResp, ctxSeen, setLog>>

NextRecent == RecentCall

SpecRecent == InitRecent /\ [][NextRecent]_vars

\* ------------------------------------------- the conversion as a function
ParsedWide ==
  {ParsedHighlight(HiText, title, author, category, note, location, ltype) :
     title \in {"", "Atomic Habits"}, author \in {"", "James Clear"},
     category \in CategoryValues \cup {"", "invalidvalue"},
     note \in {"", "I think this is right"}, location \in -1..MaxLoc,
     ltype \in LocationTypeValues \cup {"", "chapter"}}

\* Request 1 waits for the extraction provider.
InitParse ==
  /\ now = 0
  /\ submissions = <<>>
  /\ current_context = None
  /\ context_set_at = None
  /\ loop = 1
  /\ pc = [p \in Reqs |-> IF p = 1 THEN "Extracting" ELSE "Idle"]
  /\ kind = [p \in Reqs |-> IF p = 1 THEN "process" ELSE "none"]
  /\ \E t \in Transcripts :
       transcript = [p \in Reqs |-> IF p = 1 THEN Some(t) ELSE None]
  /\ context = [p \in Reqs |-> IF p = 1 THEN Some(build_context(<<>>, 0))
                               ELSE None]
  /\ parsed = [p \in Reqs |-> None]
  /\ highlight = [p \in Reqs |-> None]
  /\ readwise_id = [p \in Reqs |-> None]
  /\ response = [p \in Reqs |-> None]
  /\ trace = [p \in Reqs |-> IF p = 1
                THEN <<"transcribe", "build_context", "extract">> ELSE <<>>]
  /\ posted = [p \in Reqs |-> None]
  /\ answer = [p \in Reqs |-> None]
  /\ ctxResp = None
  /\ ctxSeen = 0
  /\ recentResp = None
  /\ recentArgs = None
  /\ setLog = <<>>

ExtractWide == \E rec \in ParsedWide : ExtractReturn(1, rec)

NextParse == ExtractWide

SpecParse == InitParse /\ [][NextParse]_vars

\* ------------------------------------------ the context as a function
\* A highlight text longer than the cut of api.py:93.
LongText == [i \in 1..(ContextCut + 1) |-> "x"]

\* The i-th stored record: every stored highlight has a title, the odd
\* ones a long text.
AssembleRecord(i, at) ==
  SubmissionRecord("update from atomic habits, small habits compound over time",
    Highlight(IF i % 2 = 1 THEN LongText ELSE HiText,
              Some(IF i % 2 = 1 THEN "Atomic Habits" ELSE "Deep Work"),
              None, Some("books"), None, None, None),
    Some(i), at)

AssembleHistories ==
  UNION {{[i \in 1..n |-> AssembleRecord(i, f[i])] : f \in [1..n -> 0..MaxClock]} :
         n \in 0..MaxHist}

\* Request 1 waits for the transcription provider.
InitAssemble ==
  /\ now \in 0..MaxClock
  /\ submissions \in AssembleHistories
  /\ current_context \in {None} \cup {Some(t) : t \in MainContextTexts}
  /\ context_set_at = (IF current_context = None THEN None ELSE Some(0))
  /\ loop = 1
  /\ pc = [p \in Reqs |-> IF p = 1 THEN "Transcribing" ELSE "Idle"]
  /\ kind = [p \in Reqs |-> IF p = 1 THEN "process" ELSE "none"]
  /\ transcript = [p \in Reqs |-> None]
  /\ context = [p \in Reqs |-> None]
  /\ parsed = [p \in Reqs |-> None]
  /\ highlight = [p \in Reqs |-> None]
  /\ readwise_id = [p \in Reqs |-> None]
  /\ response = [p \in Reqs |-> None]
  /\ trace = [p \in Reqs |-> IF p = 1 THEN <<"transcribe">> ELSE <<>>]
  /\ posted = [p \in Reqs |-> None]
  /\ answer = [p \in Reqs |-> None]
  /\ ctxResp = None
  /\ ctxSeen = 0
  /\ recentResp = None
  /\ recentArgs = None
  /\ setLog = <<>>

AssembleContext == TranscribeOk(1)

NextAssemble == AssembleContext

SpecAssemble == InitAssemble /\ [][NextAssemble]_vars

\* ------------------------------------------ submission as a function
\* Any Highlight the body of POST /submit can make (schemas.py:24-31).
HighlightsWide ==
  {Highlight(HiText, title, author, category, note, location, ltype) :
     title \in {None, Some(""), Some("Atomic Habits")},
     author \in {None, Some(""), Some("James Clear")},
     category \in {None, Some("books")},
     note \in {None, Some(""), Some("I think this is right")},
     location \in {None} \cup {Some(n) : n \in 0..MaxLoc},
     ltype \in {None, Some("page")}}

Statuses == {200, 201, 204, 301, 404, 500}
Shapes == {"invalid_json", "null", "empty_list", "object", "list_of_scalar",
           "list_of_object", "list_of_object_null_id"}

\* Any answer of the remote service, or none at all.
OutcomesWide ==
  {TransportError}
    \cup {HttpResponse(st, sh, None) : st \in Statuses, sh \in Shapes}
    \cup {HttpResponse(st, "list_of_object", Some(n)) :
            st \in Statuses, n \in {0, 123}}

SubmitWide == \E h \in HighlightsWide : SubmitArrival(1, h)
AnswerReturn == \E o \in OutcomesWide : PostReturn(1, o)
AnswerRaise == \E o \in OutcomesWide : PostRaise(1, o)

\* Request 1 is a POST /submit with any highlight, or a pipeline run with
\* any extraction; its POST gets any answer.
NextSubmit ==
  \/ SubmitWide
  \/ ArriveProcess(1)
  \/ ReadDone(1)
  \/ TranscribeOk(1)
  \/ ExtractWide
  \/ AnswerReturn
  \/ AnswerRaise

SpecSubmit == Init /\ [][NextSubmit]_vars

\* ------------------------------------------------------------- properties
Range(s) == {s[i] : i \in 1..Len(s)}
Count(s, x) == Cardinality({i \in 1..Len(s) : s[i] = x})
IsPrefix(s, t) == Len(s) <= Len(t) /\ \A i \in 1..Len(s) : s[i] = t[i]

ProcessRuns == {p \in Reqs : kind[p] = "process"}
Steps == <<"transcribe", "build_context", "extract", "submit", "post", "record">>
ProviderCalls(tr) ==
  SelectSeq(tr, LAMBDA x : x \in {"transcribe", "extract", "post"})
Detail(p) == Val(response[p]).body.detail

\* C1: the store holds exactly one record per pipeline run that reached
\* Done, carrying that run's transcript, highlight and remote id, and no
\* record of a run that failed at any stage.
C1_RecordOnFullSuccessOnly ==
  LET done == {p \in ProcessRuns : pc[p] = "Done"} IN
  /\ Len(submissions) = Cardinality(done)
  /\ \A p \in done :
       \E i \in 1..Len(submissions) :
         /\ submissions[i].transcript = Val(transcript[p])
         /\ submissions[i].highlight = Val(highlight[p])
         /\ submissions[i].readwise_id = readwise_id[p]
         /\ submissions[i].readwise_id # None
  /\ \A p \in ProcessRuns : pc[p] # "Done" => "record" \notin Range(trace[p])

\* One run is Done and recorded, another failed after its POST was sent.
C1_Witness ==
  \E p, q \in ProcessRuns :
    /\ pc[p] = "Done" /\ pc[q] = "Failed" /\ posted[q] # None
    /\ Len(submissions) = 1

\* C2: a pipeline run that transcribed and extracted but failed at
\* submission answers with the transcript and the highlight, remote id
\* absent.
C2_FailedSubmissionReportsWork ==
  \A p \in ProcessRuns :
    (pc[p] = "Failed" /\ transcript[p] # None /\ highlight[p] # None) =>
      LET body == Val(response[p]).body IN
      /\ {"transcript", "highlight"} \subseteq DOMAIN body
      /\ body.transcript = Val(transcript[p])
      /\ body.highlight = Val(highlight[p])
      /\ ("readwise_id" \in DOMAIN body => body.readwise_id = None)

\* C3: submit_highlight called with an absent or empty title fails at once
\* with the title-required ReadwiseError and POSTs nothing; every payload
\* POSTed carries a non-empty title.
C3_TitleRequiredBeforePost ==
  \A p \in Reqs :
    /\ ("submit" \in Range(trace[p]) /\ ~Truthy(Val(highlight[p]).title)) =>
         /\ pc[p] = "Failed"
         /\ Detail(p).message = TitleRequired.message
         /\ posted[p] = None
         /\ "post" \notin Range(trace[p])
    /\ posted[p] # None =>
         /\ Val(posted[p]).title # ""
         /\ Val(highlight[p]).title = Some(Val(posted[p]).title)

\* POST /submit with the empty title "" was refused, and so was a pipeline
\* run whose extraction gave no title.
C3_Witness ==
  \E p, q \in Reqs :
    /\ kind[p] = "submit" /\ pc[p] = "Failed"
    /\ Val(highlight[p]).title = Some("")
    /\ kind[q] = "process" /\ pc[q] = "Failed"
    /\ highlight[q] # None /\ Val(highlight[q]).title = None

\* C4: get_recent(hours, limit) returns exactly the stored records with
\* created_at >= now - hours, newest first, cut to the `limit` newest, and
\* leaves the stored list as it was.
C4_RecentIsNewestInWindow ==
  recentArgs # None =>
    LET a == Val(recentArgs)
        r == Val(recentResp).highlights
        cutoff == a.at - a.hours
        fresh == {i \in 1..Len(a.stored) : a.stored[i].created_at >= cutoff}
    IN /\ Len(r) = Min(a.limit, Cardinality(fresh))
       /\ Val(recentResp).count = Len(r)
       /\ \A i \in 1..Len(r) : r[i].created_at >= cutoff
       /\ \A i, j \in 1..Len(r) : i < j => r[i].created_at >= r[j].created_at
       /\ \A x \in Range(r) : Count(r, x) <= Count(a.stored, x)
       /\ \A i \in fresh :
            Count(r, a.stored[i]) < Count(a.stored, a.stored[i]) =>
              \A j \in 1..Len(r) : r[j].created_at >= a.stored[i].created_at
       /\ submissions = a.stored

\* Three stored records, the first stale, the other two fresh and stored
\* oldest first; limit 1 returns the newest, which is stored last.
C4_Witness ==
  /\ recentArgs # None
  /\ LET a == Val(recentArgs)
         r == Val(recentResp).highlights
     IN /\ Len(a.stored) = 3 /\ a.limit = 1 /\ Len(r) = 1
        /\ a.stored[1].created_at < a.at - a.hours
        /\ a.stored[2].created_at >= a.at - a.hours
        /\ a.stored[3].created_at > a.stored[2].created_at
        /\ r[1] = a.stored[3]

\* C5: a pipeline run executes transcribe, build context, extract, submit,
\* record in that order, each at most once; its provider calls are a prefix
\* of transcription, extraction, submission; no step starts unless the
\* earlier ones succeeded; a failure names the stage that failed.
C5_StepsInOrder ==
  \A p \in ProcessRuns :
    /\ IsPrefix(trace[p], Steps)
    /\ IsPrefix(ProviderCalls(trace[p]), <<"transcribe", "extract", "post">>)
    /\ "extract" \in Range(trace[p]) => transcript[p] # None
    /\ "submit" \in Range(trace[p]) => highlight[p] # None
    /\ "record" \in Range(trace[p]) => readwise_id[p] # None
    /\ pc[p] = "Failed" =>
         /\ readwise_id[p] = None
         /\ Detail(p).stage =
              IF transcript[p] = None THEN Some("Transcription failed")
              ELSE IF highlight[p] = None THEN Some("Parsing failed")
              ELSE Some("Readwise submission failed")

\* One run went through all the steps, another failed at extraction.
C5_Witness ==
  \E p, q \in ProcessRuns :
    /\ pc[p] = "Done" /\ trace[p] = Steps
    /\ pc[q] = "Failed" /\ trace[q] = <<"transcribe", "build_context", "extract">>
    /\ Detail(q).stage = Some("Parsing failed")

\* C6: the record() calls of overlapping runs all leave their entry: the
\* store has one entry per call, each call's entry at a place of its own.
C6_ConcurrentRecordsAllKept ==
  LET callers == {p \in Reqs : "record" \in Range(trace[p])} IN
  /\ Len(submissions) = Cardinality(callers)
  /\ \A p \in callers : pc[p] = "Done"
  /\ \E f \in [callers -> 1..Len(submissions)] :
       /\ \A p, q \in callers : p # q => f[p] # f[q]
       /\ \A p \in callers :
            /\ submissions[f[p]].transcript = Val(transcript[p])
            /\ submissions[f[p]].highlight = Val(highlight[p])
            /\ submissions[f[p]].readwise_id = readwise_id[p]

\* Every request is a pipeline run that built its context while the store
\* was still empty, so the runs overlapped, and each has recorded.
C6_Witness ==
  /\ Len(submissions) = NumReqs
  /\ \A p \in Reqs :
       /\ kind[p] = "process" /\ pc[p] = "Done"
       /\ Val(context[p]).recent = <<>>

\* C7: GET /context never answers a text set by one set_context call with
\* the timestamp of another call or of the initial state.
C7_ContextReadIsAtomic ==
  ctxResp # None =>
    \/ Val(ctxResp).context = None /\ Val(ctxResp).set_at = None
    \/ \E i \in 1..Len(setLog) :
         /\ setLog[i].set_at # None
         /\ Val(ctxResp).context = Some(setLog[i].text)
         /\ Val(ctxResp).set_at = setLog[i].set_at

\* A read after one full set_context, while a second call with another
\* text has been logged.
C7_Witness ==
  /\ ctxResp # None /\ ctxSeen = 1 /\ Len(setLog) = 2
  /\ setLog[1].text # setLog[2].text
  /\ Val(ctxResp).context = Some(setLog[1].text)
  /\ current_context = Some(setLog[2].text)

\* C8: GET /context after set_context calls answers the text of the last
\* call and a timestamp not earlier than the time of that call; the store
\* holds the last text only.
C8_LastSetWins ==
  /\ (ctxResp # None /\ ctxSeen > 0) =>
       /\ Val(ctxResp).context = Some(setLog[ctxSeen].text)
       /\ Val(ctxResp).set_at # None
       /\ Val(Val(ctxResp).set_at) >= setLog[ctxSeen].called_at
  /\ (ctxResp # None /\ ctxSeen = 0) =>
       Val(ctxResp) = [context |-> None, set_at |-> None]
  /\ (loop = NoReq /\ setLog # <<>>) =>
       get_context[1] = Some(setLog[Len(setLog)].text)

\* Two calls with different texts, then a read: the second text, stamped
\* after the call began.
C8_Witness ==
  /\ ctxResp # None /\ ctxSeen = 2
  /\ setLog[1].text # setLog[2].text
  /\ Val(ctxResp).context = Some(setLog[2].text)
  /\ Val(Val(ctxResp).set_at) > setLog[2].called_at

\* C9: the conversion maps "" to absent for title, author and note, location
\* 0 to absent and a positive location to itself, a category or
\* location_type outside its enum to absent and a member to itself, and
\* never fails.
C9_SentinelsBecomeAbsent ==
  \A p \in Reqs :
    parsed[p] # None =>
      /\ highlight[p] # None
      /\ ~(pc[p] = "Failed" /\ Detail(p).stage = Some("Parsing failed"))
      /\ LET rec == Val(parsed[p])
             h == Val(highlight[p])
         IN /\ h.text = rec.text
            /\ h.title = (IF rec.title = "" THEN None ELSE Some(rec.title))
            /\ h.author = (IF rec.author = "" THEN None ELSE Some(rec.author))
            /\ h.note = (IF rec.note = "" THEN None ELSE Some(rec.note))
            /\ rec.location = 0 => h.location = None
            /\ rec.location > 0 => h.location = Some(rec.location)
            /\ (rec.category \in {"books", "articles", "podcasts", "tweets"}
                  => h.category = Some(rec.category))
            /\ (rec.category \notin {"books", "articles", "podcasts", "tweets"}
                  => h.category = None)
            /\ (rec.location_type \in {"page", "order", "time_offset"}
                  => h.location_type = Some(rec.location_type))
            /\ (rec.location_type \notin {"page", "order", "time_offset"}
                  => h.location_type = None)

\* The record category="invalidvalue", location=0, location_type="" with a
\* title was converted and its POST sent.
C9_Witness ==
  /\ parsed[1] # None
  /\ Val(parsed[1]).category = "invalidvalue"
  /\ Val(parsed[1]).location = 0
  /\ Val(parsed[1]).location_type = ""
  /\ Val(parsed[1]).title # ""
  /\ pc[1] = "AwaitingPost"

\* C10: while a run waits for the transcription or the extraction provider,
\* GET /context can be served, a POST /submit can arrive and start, and a
\* request waiting for the submission provider can take its answer.
C10_ProviderWaitDoesNotBlock ==
  \A p \in Reqs :
    pc[p] \in {"Transcribing", "Extracting"} =>
      /\ ENABLED GetContext
      /\ \A q \in Reqs \ {p} :
           /\ pc[q] = "Idle" => ENABLED ArriveSubmit(q)
           /\ pc[q] = "AwaitingPost" => ENABLED (PostOk(q) \/ PostFail(q))

OptionalStrings == {"author", "category", "note", "location_type"}

\* C12 as stated: the payload POSTed for a highlight carries its text and
\* title and, of the optional fields, exactly those that are not absent in
\* the highlight, none of them empty.
C12_PayloadHasPresentFields ==
  \A p \in Reqs :
    posted[p] # None =>
      LET h == Val(highlight[p])
          d == Val(posted[p])
      IN /\ d.text = h.text
         /\ d.title = Val(h.title)
         /\ \A f \in OptionalStrings :
              /\ f \in DOMAIN d <=> h[f] # None
              /\ f \in DOMAIN d => d[f] = Val(h[f]) /\ d[f] # ""
         /\ "location" \in DOMAIN d <=> h.location # None
         /\ "location" \in DOMAIN d => d.location = Val(h.location)

\* C12, amended: the payload carries the text, the title and, of the
\* optional fields, author, category, note and location_type exactly when
\* present and not the empty string, and location exactly when present, 0
\* included; each with the highlight's value, none null or empty.
C12_PayloadHasNonEmptyFields ==
  \A p \in Reqs :
    posted[p] # None =>
      LET h == Val(highlight[p])
          d == Val(posted[p])
      IN /\ d.text = h.text
         /\ d.title = Val(h.title) /\ d.title # ""
         /\ \A f \in OptionalStrings :
              /\ f \in DOMAIN d <=> (h[f] # None /\ h[f] # Some(""))
              /\ f \in DOMAIN d => d[f] = Val(h[f]) /\ d[f] # ""
         /\ "location" \in DOMAIN d <=> h.location # None
         /\ "location" \in DOMAIN d => d.location = Val(h.location)

\* POST /submit with author "", a note, location 0 and no category: the
\* payload has the note and location 0 and no author.
C12_Witness ==
  /\ posted[1] # None
  /\ Val(highlight[1]).author = Some("")
  /\ Val(highlight[1]).location = Some(0)
  /\ Val(highlight[1]).category = None
  /\ Val(highlight[1]).location_type = None
  /\ DOMAIN Val(posted[1]) = {"text", "title", "source_type", "note", "location"}
  /\ Val(posted[1]).location = 0

\* C13: an answer with a 2xx status makes submit return: the id the remote
\* gave, or 0 when the body is malformed or empty; submit fails only on a
\* non-2xx status or a transport error.
C13_SuccessStatusReturnsId ==
  \A p \in Reqs :
    answer[p] # None =>
      LET o == Val(answer[p])
          success == o.kind = "response" /\ o.status \in 200..299
      IN /\ success =>
              /\ pc[p] = "Done"
              /\ readwise_id[p] =
                   (IF o.body.shape = "list_of_object" /\ o.body.id # None
                    THEN o.body.id ELSE Some(0))
         /\ pc[p] = "Failed" => ~success

\* C14: a step changes the stored list only by appending one record, and
\* only when a pipeline run gets its submission accepted: the record of that
\* run; every other step of every endpoint leaves the list as it was, and
\* /parse never reaches submit_highlight nor the POST.
C14_OnlyPipelineAppends ==
  [][/\ IsPrefix(submissions, submissions')
     /\ submissions' # submissions =>
          \E p \in Reqs :
            /\ kind[p] = "process"
            /\ pc[p] = "AwaitingPost" /\ pc'[p] = "Done"
            /\ submissions' =
                 Append(submissions,
                        SubmissionRecord(Val(transcript[p]), Val(highlight[p]),
                                         readwise_id'[p], now))
     /\ \A p \in Reqs :
          kind'[p] = "parse" =>
            /\ posted'[p] = None /\ answer'[p] = None
            /\ "submit" \notin Range(trace'[p])
            /\ "post" \notin Range(trace'[p])
    ]_vars

\* A /submit request accepted by the remote service and a /parse request
\* answered with a titled highlight, a context set, and the store empty.
C14_Witness ==
  \E p, q \in Reqs :
    /\ kind[p] = "submit" /\ pc[p] = "Done" /\ readwise_id[p] = Some(123)
    /\ kind[q] = "parse" /\ pc[q] = "Done"
    /\ Val(highlight[q]).title # None
    /\ current_context # None /\ context_set_at # None
    /\ submissions = <<>>

\* C15: every stored record has a highlight with a non-empty title and a
\* remote id that is present.
C15_StoredRecordsTitledWithId ==
  \A i \in 1..Len(submissions) :
    /\ submissions[i].highlight.title # None
    /\ Val(submissions[i].highlight.title) # ""
    /\ submissions[i].readwise_id # None
====
